---- MODULE Spec2Model ----
(***************************************************************************)
(* Post routes of the devconnector REST backend (routes/api/posts):        *)
(* create / list / get / delete post, like / unlike, add / delete comment. *)
(* Every handler is an async function: it awaits a lookup of the post,     *)
(* works on the document it got back, and awaits a save of that document.  *)
(* The store acts at two instants, the read and the write, and the code    *)
(* between them runs without yielding. A handler is therefore two steps:   *)
(* the read with the synchronous body that follows it (which replies at    *)
(* once when it returns early or throws), and the write with the reply.    *)
(* Handlers of concurrent requests interleave between the two. The create  *)
(* handler reads the User store instead and builds its document (id and    *)
(* date) with that read; its write is the insert.                          *)
(***************************************************************************)
EXTENDS Integers, Sequences, FiniteSets, Bags

\* ---------------------------------------------------------------- bounds
\* Requests that write to the store (an insert, a save or a remove) taken up
\* in one run, the posts created among them, and requests in progress at once.
MaxWrites == 4
MaxPosts == 2
MaxInFlight == 2

Users == {"u1", "u2"}
Texts == {"", "nice"}

PostIds == 1..MaxPosts

\* A path parameter that is no ObjectId (findById rejects with a CastError).
BadId == 0

VARIABLES
    posts,      \* the Post collection: a function from the stored ids to documents
    nextPid,    \* the id the next created post gets
    nextCid,    \* the id the next created comment gets
    inflight,   \* the bag of requests suspended at their save or remove, each
                \* with what it will reply and write, and whether the post it
                \* read has been written since (stale)
    resp,       \* the response being sent (NoReply once it has gone out)
    writes,     \* how many writing requests have been taken up
    cap,        \* how many requests the server is serving at once in this run
    acked,      \* per post: users whose like was answered 200 and not unliked since
    pre         \* the last like saved, while nothing else has written its post
                \* (kept in the runs that take the requests one at a time)

vars == <<posts, nextPid, nextCid, inflight, resp, writes, cap, acked, pre>>

\* The post ids a request may name: BadId, the stored ids, and one well-formed
\* id that no document carries (an id removed since is such an id too).
ReqPostIds == {BadId} \cup DOMAIN posts \cup {nextPid}

\* The comment ids a request on post p may name: those of its comments, and one
\* that none of them carries.
ReqCommentIds(p) ==
    {nextCid} \cup (IF p \in DOMAIN posts
                    THEN {posts[p].comments[i].id : i \in 1..Len(posts[p].comments)}
                    ELSE {})

\* ------------------------------------------------------------ user store
\* A user document without its password: the name and avatar that are copied
\* into posts and comments.
UserDoc(u) == [name |-> u, avatar |-> u]

\* User.findById(req.user.id).select("-password"): <<doc>>, or <<>> (null)
\* when the token is valid and the user document is gone. The User store is
\* written by other routes, so whether the document is there is an input of
\* each request.
UserFindById(u, there) == IF there THEN <<UserDoc(u)>> ELSE <<>>

\* The handler looks up no user.
NoUser == <<>>

\* The handler does not read req.user.
NoCaller == "none"

\* A request whose text fails validation gets its reply before any lookup,
\* and before the handler reads req.user or req.params: one such request
\* stands for all of them.
Lookups(t) == IF t = "" THEN {TRUE} ELSE BOOLEAN
Callers(t) == IF t = "" THEN {NoCaller} ELSE Users
Targets(t) == IF t = "" THEN {BadId} ELSE ReqPostIds

\* -------------------------------------------------------- array helpers
\* Array.prototype.push where the code calls unshift.
UnshiftAtEnd(arr, x) == arr \o <<x>>

\* Array.prototype.unshift
Unshift(arr, x) == <<x>> \o arr

\* lastIndexOf where the code calls indexOf.
IndexOfUserLast(arr, u) ==
    IF \E i \in 1..Len(arr) : arr[i].user = u
    THEN (CHOOSE i \in 1..Len(arr) :
            /\ arr[i].user = u
            /\ \A j \in (i + 1)..Len(arr) : arr[j].user # u) - 1
    ELSE -1

\* Array.prototype.indexOf over arr.map(e => e.user.toString()): 0-based,
\* -1 when absent.
IndexOfUser(arr, u) ==
    IF \E i \in 1..Len(arr) : arr[i].user = u
    THEN (CHOOSE i \in 1..Len(arr) :
            /\ arr[i].user = u
            /\ \A j \in 1..(i - 1) : arr[j].user # u) - 1
    ELSE -1

\* Array.prototype.splice(start, 1): a negative start counts from the end.
Splice1(arr, start) ==
    LET s == IF start < 0
             THEN (IF Len(arr) + start < 0 THEN 0 ELSE Len(arr) + start)
             ELSE (IF start > Len(arr) THEN Len(arr) ELSE start)
    IN  SubSeq(arr, 1, s) \o SubSeq(arr, s + 2, Len(arr))

\* post.likes.filter(like => like.user.toString() === req.user.id).length
CountLikes(likes, u) == Cardinality({i \in 1..Len(likes) : likes[i].user = u})

\* post.comments.find(comment => comment.id === req.params.comment_id):
\* <<c>> for the first match, <<>> for undefined.
FindComment(comments, cid) ==
    IF \E i \in 1..Len(comments) : comments[i].id = cid
    THEN <<comments[CHOOSE i \in 1..Len(comments) :
                /\ comments[i].id = cid
                /\ \A j \in 1..(i - 1) : comments[j].id # cid]>>
    ELSE <<>>

\* ------------------------------------------------------------ the store
\* Post.findById(id): err is "CastError" for an id that is no ObjectId;
\* found is <<doc>> or <<>> (null).
FindById(store, id) ==
    IF id = BadId THEN [err |-> "CastError", found |-> <<>>]
    ELSE IF id \in DOMAIN store THEN [err |-> "none", found |-> <<store[id]>>]
    ELSE [err |-> "none", found |-> <<>>]

\* Post.find().sort({date: -1}): ids are handed out in creation order.
RECURSIVE SortedByDateDesc(_, _)
SortedByDateDesc(store, ids) ==
    IF ids = {} THEN <<>>
    ELSE LET m == CHOOSE i \in ids : \A j \in ids : j <= i
         IN  <<store[m]>> \o SortedByDateDesc(store, ids \ {m})

\* Post.find().sort({date: -1})
FindAll(store) == [err |-> "none", found |-> SortedByDateDesc(store, DOMAIN store)]

\* The handler looks up no post.
NoLookup == [err |-> "none", found |-> <<>>]


Request(op, caller, pid, cid, text, user, look) ==
    [op |-> op, caller |-> caller, pid |-> pid, cid |-> cid, text |-> text,
     user |-> user, err |-> look.err, found |-> look.found]

\* A response, and what the handler asks of the store with it:
\* save = <<doc>> to write, remove = TRUE to delete the looked-up document.
Reply(status, msg, data) == [status |-> status, msg |-> msg, data |-> data]

Outcome(status, msg, data, save, remove) ==
    [reply |-> Reply(status, msg, data), save |-> save, remove |-> remove]

\* catch (error): res.status(500).send("Server error: " + error)
ServerError(what) == Outcome(500, "Server error: " \o what, <<>>, <<>>, FALSE)

\* ------------------------------------------------------------- handlers
\* What each handler does with the result of its lookup (the code after the
\* first await, up to the reply).

\* router.post('/'), after validation: user.name throws when user is null.
CreatePostOutcome(r, id) ==
    IF r.user = <<>> THEN ServerError("TypeError")
    ELSE LET user == r.user[1]
             newPost == [id |-> id, text |-> r.text, name |-> user.name,
                         avatar |-> user.avatar, user |-> r.caller,
                         likes |-> <<>>, comments |-> <<>>]
         IN  Outcome(200, "", <<newPost>>, <<newPost>>, FALSE)

\* router.get('/')
GetPostsOutcome(r) == Outcome(200, "", r.found, <<>>, FALSE)

\* router.get('/:id')
GetPostOutcome(r) ==
    IF r.err = "CastError"
    THEN Outcome(404, "Post not found", <<>>, <<>>, FALSE)
    ELSE IF r.found = <<>>
    THEN Outcome(404, "Post not found", <<>>, <<>>, FALSE)
    ELSE Outcome(200, "", r.found, <<>>, FALSE)

\* The delete handler without its ownership check.
DeletePostOutcomeNoOwnerCheck(r) ==
    IF r.err = "CastError"
    THEN Outcome(404, "Post not found", <<>>, <<>>, FALSE)
    ELSE IF r.found = <<>>
    THEN Outcome(404, "Post not found", <<>>, <<>>, FALSE)
    ELSE Outcome(200, "Post removed successfully", <<>>, <<>>, TRUE)

\* The delete handler with a catch block that does not look at error.kind.
DeletePostOutcomeNoKindCheck(r) ==
    IF r.err = "CastError" THEN ServerError("CastError")
    ELSE IF r.found = <<>>
    THEN Outcome(404, "Post not found", <<>>, <<>>, FALSE)
    ELSE IF r.found[1].user # r.caller
    THEN Outcome(401, "User not Authorized", <<>>, <<>>, FALSE)
    ELSE Outcome(200, "Post removed successfully", <<>>, <<>>, TRUE)

\* router.delete('/:id')
DeletePostOutcome(r) ==
    IF r.err = "CastError"
    THEN Outcome(404, "Post not found", <<>>, <<>>, FALSE)
    ELSE IF r.found = <<>>
    THEN Outcome(404, "Post not found", <<>>, <<>>, FALSE)
    ELSE IF r.found[1].user # r.caller
    THEN Outcome(401, "User not Authorized", <<>>, <<>>, FALSE)
    ELSE Outcome(200, "Post removed successfully", <<>>, <<>>, TRUE)

\* The like handler without its already-liked guard.
LikeOutcomeNoGuard(r) ==
    IF r.err = "CastError" THEN ServerError("CastError")
    ELSE IF r.found = <<>> THEN ServerError("TypeError")
    ELSE LET post == r.found[1]
             likes == Unshift(post.likes, [user |-> r.caller])
         IN  Outcome(200, "", likes, <<[post EXCEPT !.likes = likes]>>, FALSE)

\* The like handler with its guard written length >= 0.
LikeOutcomeAlwaysRejects(r) ==
    IF r.err = "CastError" THEN ServerError("CastError")
    ELSE IF r.found = <<>> THEN ServerError("TypeError")
    ELSE LET post == r.found[1] IN
         IF CountLikes(post.likes, r.caller) >= 0
         THEN Outcome(400, "Post already liked.", <<>>, <<>>, FALSE)
         ELSE LET likes == Unshift(post.likes, [user |-> r.caller])
              IN  Outcome(200, "", likes,
                          <<[post EXCEPT !.likes = likes]>>, FALSE)

\* The like handler building a new array (concat) and saving the old one.
LikeOutcomeConcat(r) ==
    IF r.err = "CastError" THEN ServerError("CastError")
    ELSE IF r.found = <<>> THEN ServerError("TypeError")
    ELSE LET post == r.found[1] IN
         IF CountLikes(post.likes, r.caller) > 0
         THEN Outcome(400, "Post already liked.", <<>>, <<>>, FALSE)
         ELSE Outcome(200, "", post.likes, <<post>>, FALSE)

\* router.put('/like/:id')
LikeOutcome(r) ==
    IF r.err = "CastError" THEN ServerError("CastError")
    ELSE IF r.found = <<>> THEN ServerError("TypeError")
    ELSE LET post == r.found[1] IN
         IF CountLikes(post.likes, r.caller) > 0
         THEN Outcome(400, "Post already liked.", <<>>, <<>>, FALSE)
         ELSE LET likes == Unshift(post.likes, [user |-> r.caller])
              IN  Outcome(200, "", likes,
                          <<[post EXCEPT !.likes = likes]>>, FALSE)

\* The unlike handler with a remove index that is never found (-1).
UnlikeOutcomeRemovesLast(r) ==
    IF r.err = "CastError" THEN ServerError("CastError")
    ELSE IF r.found = <<>> THEN ServerError("TypeError")
    ELSE LET post == r.found[1] IN
         IF CountLikes(post.likes, r.caller) = 0
         THEN Outcome(400, "Post has not yet been liked.", <<>>, <<>>, FALSE)
         ELSE LET likes == Splice1(post.likes, -1)
              IN  Outcome(200, "", likes,
                          <<[post EXCEPT !.likes = likes]>>, FALSE)

\* router.put('/unlike/:id')
UnlikeOutcome(r) ==
    IF r.err = "CastError" THEN ServerError("CastError")
    ELSE IF r.found = <<>> THEN ServerError("TypeError")
    ELSE LET post == r.found[1] IN
         IF CountLikes(post.likes, r.caller) = 0
         THEN Outcome(400, "Post has not yet been liked.", <<>>, <<>>, FALSE)
         ELSE LET removeIndex == IndexOfUser(post.likes, r.caller)
                  likes == Splice1(post.likes, removeIndex)
              IN  Outcome(200, "", likes,
                          <<[post EXCEPT !.likes = likes]>>, FALSE)

\* router.post('/comment/:id'), after validation: user.name throws when user
\* is null, post.comments when post is null.
AddCommentOutcome(r, id) ==
    IF r.err = "CastError" THEN ServerError("CastError")
    ELSE IF r.user = <<>> THEN ServerError("TypeError")
    ELSE IF r.found = <<>> THEN ServerError("TypeError")
    ELSE LET post == r.found[1]
             user == r.user[1]
             newComment == [id |-> id, text |-> r.text, name |-> user.name,
                            avatar |-> user.avatar, user |-> r.caller]
             comments == Unshift(post.comments, newComment)
         IN  Outcome(200, "", comments,
                     <<[post EXCEPT !.comments = comments]>>, FALSE)

\* The delete-comment handler authorizing whoever has a comment on the post.
DeleteCommentOutcomeAnyAuthor(r) ==
    IF r.err = "CastError" THEN ServerError("CastError")
    ELSE IF r.found = <<>> THEN ServerError("TypeError")
    ELSE LET post == r.found[1]
             comment == FindComment(post.comments, r.cid)
             removeIndex == IndexOfUser(post.comments, r.caller)
         IN  IF comment = <<>>
             THEN Outcome(404, "Comment does not exist", <<>>, <<>>, FALSE)
             ELSE IF removeIndex = -1
             THEN Outcome(401, "User not authorized", <<>>, <<>>, FALSE)
             ELSE LET comments == Splice1(post.comments, removeIndex)
                  IN  Outcome(200, "", comments,
                              <<[post EXCEPT !.comments = comments]>>, FALSE)

\* router.delete('/comment/:id/:comment_id')
DeleteCommentOutcome(r) ==
    IF r.err = "CastError" THEN ServerError("CastError")
    ELSE IF r.found = <<>> THEN ServerError("TypeError")
    ELSE LET post == r.found[1]
             comment == FindComment(post.comments, r.cid)
         IN  IF comment = <<>>
             THEN Outcome(404, "Comment does not exist", <<>>, <<>>, FALSE)
             ELSE IF comment[1].user # r.caller
             THEN Outcome(401, "User not authorized", <<>>, <<>>, FALSE)
             ELSE LET removeIndex == IndexOfUser(post.comments, r.caller)
                      comments == Splice1(post.comments, removeIndex)
                  IN  Outcome(200, "", comments,
                              <<[post EXCEPT !.comments = comments]>>, FALSE)

\* ------------------------------------------------------- initial states
NoReply == [status |-> 0, msg |-> "", data |-> <<>>]
NoPre == [pid |-> BadId, user |-> "none", likes |-> <<>>, undone |-> FALSE]

InitStore ==
    /\ posts = <<>>
    /\ nextPid = 1
    /\ nextCid = 1
    /\ inflight = EmptyBag
    /\ resp = NoReply
    /\ writes = 0
    /\ acked = [p \in PostIds |-> {}]
    /\ pre = NoPre

\* The server takes the requests one at a time, or has up to MaxInFlight of
\* them in progress at once.
Init == InitStore /\ cap \in {1, MaxInFlight}

\* The handlers run one at a time.
SeqInit == InitStore /\ cap = 1

\* ---------------------------------------------------------------- steps
\* The server takes up a request once the last reply has gone out.
Idling == resp = NoReply

Free == Idling /\ BagCardinality(inflight) < cap

\* validationResult(req) is not empty: reply 400 before anything is looked up.
Reject(r) ==
    /\ Idling
    /\ resp' = Reply(400, "Text is required", <<>>)
    /\ UNCHANGED <<posts, nextPid, nextCid, inflight, writes, cap, acked, pre>>

\* The synchronous body has run on the looked-up document: it has replied
\* (early return, or the catch block), or it is suspended at its write.
Handle(r, o) ==
    /\ IF o.save = <<>> /\ ~o.remove
       THEN resp' = o.reply /\ UNCHANGED <<inflight, writes>>
       ELSE /\ writes < MaxWrites
            /\ writes' = writes + 1
            /\ resp' = NoReply
            /\ inflight' = inflight (+) SetToBag(
                   {[op |-> r.op, caller |-> r.caller, pid |-> r.pid,
                     cid |-> r.cid, out |-> o, stale |-> FALSE]})
    /\ UNCHANGED <<posts, cap, acked, pre>>

\* What the store does with a post.save() is decided by the Post model, which
\* is not part of this file. The specification of the repository describes a
\* save that persists the document the handler holds, so that of two handlers
\* that read the same snapshot the second save overwrites the first (section
\* 5); a Post schema that keeps a version key instead rejects the save of a
\* document that was written since the handler read it, and the handler's
\* catch block replies 500. Both are outcomes of such a save here.
\*   "done"      the write reached the store
\*   "conflict"  the save was rejected: the document was written since the read
\*   "unmatched" the document is gone, the save updates nothing and reports
\*               nothing
\*   "notfound"  the document is gone and the save is rejected
SaveResults(r, o) ==
    IF o.save = <<>> \/ r.op = "create" THEN {"done"}
    ELSE IF o.save[1].id \notin DOMAIN posts THEN {"unmatched", "notfound"}
    ELSE IF r.stale THEN {"done", "conflict"}
    ELSE {"done"}

\* post.save() of a stored document replaced it.
Written(o, res) ==
    o.save # <<>> /\ o.save[1].id \in DOMAIN posts /\ res = "done"

\* newPost.save() inserts the document the handler built.
Inserted(r, o) == r.op = "create" /\ o.save # <<>>

\* post.remove() deleted a stored document.
Removed(r, o) == o.remove /\ r.pid \in DOMAIN posts

Store(r, o, res) ==
    IF o.remove THEN [i \in DOMAIN posts \ {r.pid} |-> posts[i]]
    ELSE IF Written(o, res) THEN [posts EXCEPT ![o.save[1].id] = o.save[1]]
    ELSE IF Inserted(r, o)
    THEN [i \in DOMAIN posts \cup {o.save[1].id} |->
             IF i = o.save[1].id THEN o.save[1] ELSE posts[i]]
    ELSE posts

\* res.json(...) after the await, or the catch block when the save rejects.
ReplyAfter(o, res) ==
    IF res = "conflict" THEN ServerError("VersionError").reply
    ELSE IF res = "notfound" THEN ServerError("DocumentNotFoundError").reply
    ELSE o.reply

\* The requests still suspended that read post p before it was written now
\* hold a document older than the stored one.
MarkStale(B, p) ==
    LET M(e) == IF e.pid = p /\ e.out.save # <<>>
                THEN [e EXCEPT !.stale = TRUE] ELSE e
        Count(x, e) == IF e \in DOMAIN B /\ M(e) = x THEN B[e] ELSE 0
        Fresh(x) == [x EXCEPT !.stale = FALSE]
    IN  [x \in {M(e) : e \in DOMAIN B} |->
            Count(x, x) + (IF Fresh(x) # x THEN Count(x, Fresh(x)) ELSE 0)]

\* History kept for the properties below; no handler reads it.
Acked(r, o, res) ==
    IF Removed(r, o) THEN [acked EXCEPT ![r.pid] = {}]
    ELSE IF Written(o, res) /\ r.op = "like"
    THEN [acked EXCEPT ![r.pid] = @ \cup {r.caller}]
    ELSE IF Written(o, res) /\ r.op = "unlike"
    THEN [acked EXCEPT ![r.pid] = @ \ {r.caller}]
    ELSE acked

\* pre: the last like that was saved, with the likes stored before it, while
\* the only write to its post since is at most one unlike by the same user.
Pre(r, o, res) ==
    IF cap > 1 THEN NoPre
    ELSE IF Written(o, res) /\ r.op = "like"
    THEN [pid |-> r.pid, user |-> r.caller, likes |-> posts[r.pid].likes,
          undone |-> FALSE]
    ELSE IF Written(o, res) /\ r.op = "unlike" /\ r.pid = pre.pid
            /\ r.caller = pre.user /\ ~pre.undone
    THEN [pre EXCEPT !.undone = TRUE]
    ELSE IF (Written(o, res) \/ Removed(r, o)) /\ r.pid = pre.pid THEN NoPre
    ELSE pre

\* The write reaches the store, or is rejected, and the handler replies.
Complete(r, op) ==
    LET o == r.out
        rest == inflight (-) SetToBag({r})
    IN  /\ Idling
        /\ r.op = op
        /\ \E res \in SaveResults(r, o) :
              /\ posts' = Store(r, o, res)
              /\ resp' = ReplyAfter(o, res)
              /\ acked' = Acked(r, o, res)
              /\ pre' = Pre(r, o, res)
              /\ inflight' = IF Written(o, res) THEN MarkStale(rest, r.pid)
                             ELSE rest
        /\ UNCHANGED <<nextPid, nextCid, writes, cap>>

\* router.post('/') up to newPost.save(): the document gets its id and date
\* when it is built, before the insert.
CreatePost(u, t, there) ==
    LET r == Request("create", u, BadId, 0, t, UserFindById(u, there), NoLookup)
        o == CreatePostOutcome(r, nextPid)
    IN  IF t = "" THEN Reject(r)
        ELSE /\ Free
             /\ nextPid <= MaxPosts
             /\ Handle(r, o)
             /\ nextPid' = IF o.save = <<>> THEN nextPid ELSE nextPid + 1
             /\ UNCHANGED nextCid

CreatePostSave(r) == Complete(r, "create")

\* router.get('/'): the handler does not read req.user.
GetPosts ==
    /\ Idling
    /\ resp' = GetPostsOutcome(Request("list", NoCaller, BadId, 0, "", NoUser,
                                        FindAll(posts))).reply
    /\ UNCHANGED <<posts, nextPid, nextCid, inflight, writes, cap, acked, pre>>

\* router.get('/:id'): the handler does not read req.user.
GetPost(p) ==
    /\ Idling
    /\ resp' = GetPostOutcome(Request("get", NoCaller, p, 0, "", NoUser,
                                       FindById(posts, p))).reply
    /\ UNCHANGED <<posts, nextPid, nextCid, inflight, writes, cap, acked, pre>>

\* router.delete('/:id') up to post.remove()
DeletePost(u, p) ==
    LET r == Request("delete", u, p, 0, "", NoUser, FindById(posts, p)) IN
    /\ Free
    /\ Handle(r, DeletePostOutcome(r))
    /\ UNCHANGED <<nextPid, nextCid>>

DeletePostRemove(r) == Complete(r, "delete")

\* router.put('/like/:id') up to post.save()
Like(u, p) ==
    LET r == Request("like", u, p, 0, "", NoUser, FindById(posts, p)) IN
    /\ Free
    /\ Handle(r, LikeOutcome(r))
    /\ UNCHANGED <<nextPid, nextCid>>

LikeSave(r) == Complete(r, "like")

\* router.put('/unlike/:id') up to post.save()
Unlike(u, p) ==
    LET r == Request("unlike", u, p, 0, "", NoUser, FindById(posts, p)) IN
    /\ Free
    /\ Handle(r, UnlikeOutcome(r))
    /\ UNCHANGED <<nextPid, nextCid>>

UnlikeSave(r) == Complete(r, "unlike")

\* router.post('/comment/:id') up to post.save(); the comment gets its id
\* when the subdocument is built.
AddComment(u, p, t, there) ==
    LET r == Request("comment", u, p, 0, t, UserFindById(u, there),
                     FindById(posts, p))
        o == AddCommentOutcome(r, nextCid)
    IN  IF t = "" THEN Reject(r)
        ELSE /\ Free
             /\ Handle(r, o)
             /\ nextCid' = IF o.save = <<>> THEN nextCid ELSE nextCid + 1
             /\ UNCHANGED nextPid

AddCommentSave(r) == Complete(r, "comment")

\* router.delete('/comment/:id/:comment_id') up to post.save()
DeleteComment(u, p, c) ==
    LET r == Request("uncomment", u, p, c, "", NoUser, FindById(posts, p)) IN
    /\ Free
    /\ Handle(r, DeleteCommentOutcome(r))
    /\ UNCHANGED <<nextPid, nextCid>>

DeleteCommentSave(r) == Complete(r, "uncomment")

\* The reply has left the server.
Sent ==
    /\ resp # NoReply
    /\ resp' = NoReply
    /\ UNCHANGED <<posts, nextPid, nextCid, inflight, writes, cap, acked, pre>>

Next ==
    \/ Sent
    \/ \E t \in Texts : \E u \in Callers(t), there \in Lookups(t) :
          CreatePost(u, t, there)
    \/ \E r \in BagToSet(inflight) : CreatePostSave(r)
    \/ GetPosts
    \/ \E p \in ReqPostIds : GetPost(p)
    \/ \E u \in Users, p \in ReqPostIds : DeletePost(u, p)
    \/ \E r \in BagToSet(inflight) : DeletePostRemove(r)
    \/ \E u \in Users, p \in ReqPostIds : Like(u, p)
    \/ \E r \in BagToSet(inflight) : LikeSave(r)
    \/ \E u \in Users, p \in ReqPostIds : Unlike(u, p)
    \/ \E r \in BagToSet(inflight) : UnlikeSave(r)
    \/ \E t \in Texts :
          \E u \in Callers(t), p \in Targets(t), there \in Lookups(t) :
              AddComment(u, p, t, there)
    \/ \E r \in BagToSet(inflight) : AddCommentSave(r)
    \/ \E u \in Users, p \in ReqPostIds : \E c \in ReqCommentIds(p) :
          DeleteComment(u, p, c)
    \/ \E r \in BagToSet(inflight) : DeleteCommentSave(r)

Spec == Init /\ [][Next]_vars
SeqSpec == SeqInit /\ [][Next]_vars

\* ---------------------------------------------------------- properties
Pending == BagToSet(inflight)

HasLike(likes, u) == \E i \in 1..Len(likes) : likes[i].user = u

Answer(status, msg) == [status |-> status, msg |-> msg, data |-> <<>>]

\* The step replied at once, without asking anything of the store.
Untouched == posts' = posts /\ inflight' = inflight

\* The step replied nothing and left a request suspended at its write.
Suspended == resp' = NoReply /\ posts' = posts /\ inflight' # inflight

\* C1: in every reachable state, under any interleaving of the handlers, no
\* user appears more than once in the stored likes of a post.
NoDuplicateLikes ==
    \A p \in DOMAIN posts :
        \A i, j \in 1..Len(posts[p].likes) :
            posts[p].likes[i].user = posts[p].likes[j].user => i = j

\* C1 witness: a like by a user is suspended at its save while the stored
\* post already holds a like of that user, saved by an overlapping request.
SameUserLikesOverlap ==
    \E r \in Pending :
        /\ r.op = "like"
        /\ r.pid \in DOMAIN posts
        /\ HasLike(posts[r.pid].likes, r.caller)

\* C2: with the handlers run one at a time, a like of a stored post by a user
\* not in its likes is saved and replies 200 with {user} prepended to the
\* stored likes; a second like by that user, with no other write to the post
\* in between, replies 400 'Post already liked.' and writes nothing.
LikeTwice ==
    [][/\ \A u \in Users : \A p \in DOMAIN posts :
            /\ (Like(u, p) /\ ~HasLike(posts[p].likes, u)) => Suspended
            /\ (Like(u, p) /\ pre.pid = p /\ pre.user = u /\ ~pre.undone) =>
                   /\ resp' = Answer(400, "Post already liked.")
                   /\ Untouched
       /\ \A r \in Pending :
            LikeSave(r) =>
                /\ resp'.status = 200
                /\ resp'.data = <<[user |-> r.caller]>> \o posts[r.pid].likes
                /\ posts'[r.pid].likes = resp'.data]_vars

\* C2 witness: the only post ever made holds exactly the like of the user who
\* liked last, and a like has just been refused as already liked.
SecondLikeRefused ==
    /\ resp = Answer(400, "Post already liked.")
    /\ nextPid = 2
    /\ pre.pid \in DOMAIN posts
    /\ ~pre.undone
    /\ posts[pre.pid].likes = <<[user |-> pre.user]>>

\* C3: with the handlers run one at a time, an unlike by the user whose like
\* was the last write to the post is saved and leaves the stored likes as
\* they were before that like; an unlike by a user not in the likes replies
\* 400 and writes nothing.
UnlikeUndoesLike ==
    [][/\ (pre'.undone /\ pre'.pid \in DOMAIN posts') =>
            posts'[pre'.pid].likes = pre'.likes
       /\ \A u \in Users : \A p \in DOMAIN posts :
            /\ (Unlike(u, p) /\ pre.pid = p /\ pre.user = u /\ ~pre.undone) =>
                   Suspended
            /\ (Unlike(u, p) /\ ~HasLike(posts[p].likes, u)) =>
                   /\ resp' = Answer(400, "Post has not yet been liked.")
                   /\ Untouched
       /\ \A r \in Pending :
            UnlikeSave(r) =>
                /\ resp'.status = 200
                /\ resp'.data = posts'[r.pid].likes
                /\ (pre.pid = r.pid /\ pre.user = r.caller /\ ~pre.undone) =>
                       pre'.undone]_vars

\* C3 witness: a like of a post that had likes already has been undone, and
\* the reply carries the likes stored before that like.
LikeUndone ==
    /\ pre.undone
    /\ pre.likes # <<>>
    /\ resp.status = 200
    /\ resp.data = pre.likes
    /\ posts[pre.pid].likes = pre.likes

\* C4: a delete-post request on a stored post by a caller who is not its user
\* replies 401 and writes nothing; a post leaves the store only in the remove
\* step of a delete-post request whose caller is the post's user, and that
\* step changes no other post.
OnlyOwnerDeletes ==
    [][/\ \A u \in Users : \A p \in DOMAIN posts :
            (posts[p].user # u /\ DeletePost(u, p)) =>
                /\ resp' = Answer(401, "User not Authorized")
                /\ Untouched
       /\ \A p \in DOMAIN posts :
            p \notin DOMAIN posts' =>
                \E r \in Pending :
                    /\ DeletePostRemove(r)
                    /\ r.pid = p
                    /\ r.caller = posts[p].user
                    /\ \A q \in DOMAIN posts \ {p} :
                           q \in DOMAIN posts' /\ posts'[q] = posts[q]]_vars

\* C4 witness: a delete-post request has just been refused with 401 while
\* the store holds a post.
NonOwnerRefused ==
    /\ resp = Answer(401, "User not Authorized")
    /\ DOMAIN posts # {}

\* C5: a get-post or delete-post request whose id names no stored post (a
\* malformed id, or a well-formed id that no document carries) replies 404
\* 'Post not found' and writes nothing.
MissingPostIs404 ==
    [][\A p \in ReqPostIds \ DOMAIN posts :
          /\ GetPost(p) =>
                 resp' = Answer(404, "Post not found") /\ Untouched
          /\ \A u \in Users :
                 DeletePost(u, p) =>
                     resp' = Answer(404, "Post not found") /\ Untouched]_vars

\* C5 witness: a request naming no stored post has just been answered 404
\* 'Post not found' while the store holds a post.
MissingPostRefused ==
    /\ resp = Answer(404, "Post not found")
    /\ DOMAIN posts # {}

\* C6: a delete-comment request naming a comment of a stored post, by a
\* caller who is not that comment's user, replies 401 and writes nothing,
\* whatever else the caller has written on the post.
NonAuthorRefused401 ==
    [][\A u \in Users : \A p \in DOMAIN posts :
          \A i \in 1..Len(posts[p].comments) :
              (/\ posts[p].comments[i].user # u
               /\ DeleteComment(u, p, posts[p].comments[i].id)) =>
                  /\ resp' = Answer(401, "User not authorized")
                  /\ Untouched]_vars

\* C6 witness: a delete-comment request has just been refused with 401 on
\* the only post ever made, on which every user has a comment.
AuthorOfAnotherCommentRefused ==
    /\ resp = Answer(401, "User not authorized")
    /\ nextPid = 2
    /\ 1 \in DOMAIN posts
    /\ \A u \in Users :
          \E i \in 1..Len(posts[1].comments) : posts[1].comments[i].user = u

\* Comments stand in the order of their making, newest first.
NewestFirst ==
    \A p \in DOMAIN posts :
        \A i, j \in 1..Len(posts[p].comments) :
            i < j => posts[p].comments[i].id > posts[p].comments[j].id

\* C7: with the handlers run one at a time, an add-comment with non-empty
\* text on a stored post stores the new comment (caller, text) at index 0
\* followed by the previous comments in their order, and replies 200 with
\* that sequence; a get of the post replies with the stored post; comments
\* stay ordered newest-first.
CommentPrepended ==
    [][/\ \A u \in Users : \A p \in DOMAIN posts :
            /\ \A t \in Texts \ {""} :
                 AddComment(u, p, t, TRUE) =>
                     /\ Suspended
                     /\ \E r \in BagToSet(inflight') :
                           /\ r.op = "comment" /\ r.caller = u /\ r.pid = p
                           /\ r.out.save[1].comments[1].text = t
            /\ GetPost(p) =>
                   resp' = [status |-> 200, msg |-> "", data |-> <<posts[p]>>]
       /\ \A r \in Pending :
            AddCommentSave(r) =>
                LET old == posts[r.pid].comments
                    new == posts'[r.pid].comments
                IN  /\ Len(new) = Len(old) + 1
                    /\ new[1].user = r.caller
                    /\ new[1].text = r.out.save[1].comments[1].text
                    /\ SubSeq(new, 2, Len(new)) = old
                    /\ resp'.status = 200
                    /\ resp'.data = new
       /\ NewestFirst']_vars

\* C7 witness: the second comment ever made has just been answered 200 with
\* the stored comments of its post, the new comment first.
SecondCommentFirst ==
    /\ resp.status = 200
    /\ nextCid = 3
    /\ \E p \in DOMAIN posts :
          /\ posts[p].comments = resp.data
          /\ Len(resp.data) = 2
          /\ resp.data[1].id = 2

\* C8 (as claimed): a like, unlike, add-comment or delete-comment request
\* whose well-formed post id names no stored post replies 404 and writes
\* nothing.
MissingPostIs404InMutators ==
    [][\A u \in Users : \A p \in (ReqPostIds \ {BadId}) \ DOMAIN posts :
          (\/ Like(u, p)
           \/ Unlike(u, p)
           \/ \E t \in Texts \ {""} : AddComment(u, p, t, TRUE)
           \/ \E c \in ReqCommentIds(p) : DeleteComment(u, p, c)) =>
              resp'.status = 404 /\ Untouched]_vars

\* C9: with the handlers run one at a time, every user whose like was
\* answered 200 and who has not unliked since is in the stored likes.
SequentialLikesKept ==
    cap = 1 =>
        \A p \in DOMAIN posts :
            \A u \in acked[p] : HasLike(posts[p].likes, u)

\* C9 witness: the lost update. Three writing requests were taken up (the
\* post's creation and two likes that read the same snapshot), the second
\* save overwrote the first, both likes were answered 200 and none is in
\* progress, and the stored likes hold one entry.
LostUpdate ==
    /\ cap > 1
    /\ writes = 3
    /\ inflight = EmptyBag
    /\ 1 \in DOMAIN posts
    /\ acked[1] = Users
    /\ Len(posts[1].likes) = 1

\* C10: with the handlers run one at a time, a delete-comment naming a
\* comment of the caller is saved and removes exactly the comment at the
\* lowest index whose user is the caller, the others keeping their order;
\* when that is not the comment named, the comment named stays in the post.
CallersFirstCommentRemoved ==
    [][/\ \A u \in Users : \A p \in DOMAIN posts :
            \A i \in 1..Len(posts[p].comments) :
                (/\ DeleteComment(u, p, posts[p].comments[i].id)
                 /\ posts[p].comments[i].user = u) => Suspended
       /\ \A r \in Pending :
            DeleteCommentSave(r) =>
                LET old == posts[r.pid].comments
                    new == posts'[r.pid].comments
                IN  /\ resp'.status = 200
                    /\ resp'.data = new
                    /\ \E k \in 1..Len(old) :
                          /\ old[k].user = r.caller
                          /\ \A j \in 1..(k - 1) : old[j].user # r.caller
                          /\ new = SubSeq(old, 1, k - 1) \o SubSeq(old, k + 1, Len(old))
                          /\ old[k].id # r.cid =>
                                 \E i \in 1..Len(new) : new[i].id = r.cid]_vars

\* C10 witness: a delete-comment is suspended at its save with the comment it
\* named still in the document it is about to save.
NamedCommentKept ==
    \E r \in Pending :
        /\ r.op = "uncomment"
        /\ r.pid \in DOMAIN posts
        /\ \E i \in 1..Len(r.out.save[1].comments) :
              r.out.save[1].comments[i].id = r.cid

====
